---- MODULE Spec2Model ----
(***************************************************************************)
(* The authenticated API client of the attendance app (class ApiService):  *)
(* the credential kept in AsyncStorage under key 'token', the axios        *)
(* request and response interceptors, the error normalisation of           *)
(* handleApiError, and the client operations login, register, logout and   *)
(* the bearer operations.  A client operation is an async function: it is  *)
(* modelled as a call that moves from one await to the next, and calls     *)
(* interleave at their awaits.                                             *)
(***************************************************************************)
EXTENDS Integers, Sequences, FiniteSets, Bags, TLC

\* ------------------------------------------------------------------ bounds

\* Number of client calls that may be in flight at the same time.
MaxCalls == 2

\* Bound: how many times the user changes the form of the login screen while
\* a submission, its retries included, is running.
MaxEdits == 1

\* The bearer tokens the server may issue (opaque strings).
Tokens == {"T1", "T2"}

\* Payloads the server may put in the data (or timetable) field.
Data == {"D1", "D2"}

\* ------------------------------------------------------------- the values

\* AsyncStorage.getItem('token') when the key is absent (null).
NoToken == "null"

\* The request carries no Authorization header.
NoHdr == <<>>

\* config.headers['Authorization'] = `Bearer ${token}`
Bearer(token) == <<"Bearer", token>>

\* The operations of ApiService that the model exercises: login, register and
\* logout, two plain bearer operations (one answered in data, one in timetable)
\* and one bearer operation wrapped in try/catch.
Ops == {"login", "register", "logout", "getStudentProfile", "getTimetable", "checkout"}

\* Operations whose body is try { ... } catch (error) { throw this.handleApiError(error) }.
CatchingOps == {"register", "checkout"}

\* Operations issued with HTTP GET.
ReadOps == {"getStudentProfile", "getTimetable"}

\* The response envelope { status, token, message, timetable, data }; a field the
\* server leaves out is the empty string (NoToken for the token).
Envelope(status, token, message, data, timetable) ==
    [status |-> status, token |-> token, message |-> message,
     data |-> data, timetable |-> timetable]

NoBody == Envelope("", NoToken, "", "", "")

\* What the transport delivers for one request: an HTTP status (0 when no
\* response was received), the axios error code and message when it fails,
\* and the parsed body.
Response(http, code, axiosMessage, body) ==
    [http |-> http, code |-> code, axiosMessage |-> axiosMessage, body |-> body]

NoResp == Response(0, "", "", NoBody)

\* The bodies a server may send with a 2xx status.
OkBodies(op) ==
    IF op = "login"
    THEN {Envelope("success", t, "", "", "") : t \in Tokens \cup {NoToken}}
         \cup {Envelope("error", NoToken, "M1", "", "")}
    ELSE IF op = "register"
    THEN {Envelope("success", t, "", "D1", "") : t \in Tokens \cup {NoToken}}
         \cup {Envelope("error", NoToken, "M1", "", "")}
    ELSE IF op = "getTimetable"
    THEN {Envelope("success", NoToken, "", "", d) : d \in Data}
         \cup {Envelope("error", NoToken, "M1", "", "")}
    ELSE {Envelope("success", NoToken, "", d, "") : d \in Data}
         \cup {Envelope("error", NoToken, "M1", "", "")}

\* Everything the transport may deliver for an operation: a 2xx response, a
\* non-2xx response whose body has a message or not, no response at all
\* (connectivity), or a timeout (code ECONNABORTED, no response).
Responses(op) ==
    {Response(200, "", "", b) : b \in OkBodies(op)}
    \cup {Response(401, "ERR_BAD_REQUEST", "Request failed with status code 401",
                   Envelope("error", NoToken, m, "", "")) : m \in {"", "M1"}}
    \cup {Response(500, "ERR_BAD_RESPONSE", "Request failed with status code 500",
                   Envelope("error", NoToken, m, "", "")) : m \in {"", "M1"}}
    \cup {Response(0, "ERR_NETWORK", "Network Error", NoBody),
          Response(0, "ECONNABORTED", "timeout exceeded", NoBody)}

Is2xx(resp) == resp.http = 200

\* ------------------------------------------------------------- the errors

\* An error value: what axios.isAxiosError says of it, whether it has a
\* response, the message of that response's body, its code and its message.
ErrorValue(isAxios, hasResponse, responseMessage, code, message) ==
    [isAxiosError |-> isAxios, hasResponse |-> hasResponse,
     responseMessage |-> responseMessage, code |-> code, message |-> message]

\* new Error(message)
NewError(message) == ErrorValue(FALSE, FALSE, "", "", message)

\* The AxiosError the transport rejects with for a failed exchange.
AxiosError(resp) ==
    ErrorValue(TRUE, resp.http # 0, resp.body.message, resp.code, resp.axiosMessage)

\* Mutant of HandleApiError: the server's message is not looked at.
HandleApiErrorOwnMessage(error) ==
    NewError(IF error.message # "" THEN error.message ELSE "An unexpected error occurred")

\* handleApiError: error.response?.data?.message || error.message || fallback
HandleApiError(error) ==
    NewError(IF error.hasResponse /\ error.responseMessage # ""
             THEN error.responseMessage
             ELSE IF error.message # ""
             THEN error.message
             ELSE "An unexpected error occurred")

\* What an operation hands to its caller.
NoResult == [kind |-> "none", value |-> NoBody, error |-> NewError("")]

Returned(body) == [kind |-> "return", value |-> body, error |-> NewError("")]

Thrown(error) == [kind |-> "throw", value |-> NoBody, error |-> error]

\* ------------------------------------------------- the interceptors' logic

\* Mutant of RequestInterceptor: the header is never set.
RequestInterceptorNoAttach(token) == NoHdr

\* Mutant of RequestInterceptor: the test if (token) is missing.
RequestInterceptorNoGuard(token) == Bearer(token)

\* Mutant of RequestInterceptor: the header carries a fixed token, not the
\* one read.
RequestInterceptorFixedToken(token) ==
    IF token # NoToken THEN Bearer("T1") ELSE NoHdr

\* The request interceptor: const token = await this.getToken();
\* if (token) config.headers['Authorization'] = `Bearer ${token}`.
RequestInterceptor(token) ==
    IF token # NoToken THEN Bearer(token) ELSE NoHdr

\* Mutant of Intercepted: the operations that need no credential skip the
\* request interceptor.
InterceptedBearerOnly(op) == op \notin {"login", "register"}

\* Whether a request of the operation passes the request interceptor: the
\* interceptor is installed on the one axios instance every operation uses.
Intercepted(op) == TRUE

\* Mutant of ResponseInterceptor: a failure is resolved with whatever body
\* came with it.
ResponseInterceptorSwallow(resp) == Returned(resp.body)

\* The response interceptor: a 2xx response passes unchanged; a failure is
\* rejected with handleApiError(error), a plain Error.
ResponseInterceptor(resp) ==
    IF Is2xx(resp)
    THEN Returned(resp.body)
    ELSE Thrown(HandleApiError(AxiosError(resp)))

\* login: response.data.status === 'success' && response.data.token
LoginAccepts(body) ==
    body.status = "success" /\ body.token # NoToken

\* The catch block of login.
LoginCatch(error) ==
    IF error.isAxiosError /\ ~error.hasResponse
    THEN NewError("Please check your internet connection and try again")
    ELSE IF error.isAxiosError /\ error.code = "ECONNABORTED"
    THEN NewError("Request timed out. Please try again")
    ELSE HandleApiError(error)

\* Mutant of OperationReturn: only the data field of the envelope is kept.
OperationReturnDataOnly(body) ==
    Returned(Envelope(body.status, body.token, body.message, body.data, ""))

\* What the body of an operation does with the awaited response:
\* return response.data (the body of the HTTP response, that is the envelope).
OperationReturn(body) == Returned(body)

\* The outcome of an operation's body once the exchange has settled (for an
\* accepted login: once setToken has been awaited as well).
OperationResult(op, resp) ==
    LET settled == ResponseInterceptor(resp)
    IN  IF op = "login"
        THEN IF settled.kind = "return"
             THEN IF LoginAccepts(settled.value)
                  THEN OperationReturn(settled.value)
                  ELSE Thrown(LoginCatch(NewError("Invalid login response")))
             ELSE Thrown(LoginCatch(settled.error))
        ELSE IF settled.kind = "return"
        THEN OperationReturn(settled.value)
        ELSE IF op \in CatchingOps
        THEN Thrown(HandleApiError(settled.error))
        ELSE settled

\* Mutant of WritesToken: login stores the token field of any 2xx response,
\* before looking at the envelope.
WritesTokenBeforeCheck(op, resp) == op = "login" /\ Is2xx(resp)

\* Mutant of WritesToken: every operation stores a token it is sent.
WritesTokenAnyOp(op, resp) ==
    Is2xx(resp) /\ LoginAccepts(resp.body)

\* Whether the operation goes on to await this.setToken(response.data.token).
WritesToken(op, resp) ==
    op = "login" /\ Is2xx(resp) /\ LoginAccepts(resp.body)

\* Mutant of SetItem: the write is lost.
SetItemLost(old, token) == old

\* AsyncStorage.setItem('token', token): the value under the key afterwards.
SetItem(old, token) == token

\* Mutant of RemoveItem: the key keeps its value.
RemoveItemKept(old) == old

\* AsyncStorage.removeItem('token'): the value under the key afterwards.
RemoveItem(old) == NoToken

\* ------------------------------------------------------------ the requests

\* The argument of login(username, password).
Credentials == [username |-> "u", password |-> "p"]

\* The argument of register(userData): the fields that depend on the role; a
\* field the caller leaves out is the empty string.
UserData(role, year, branch, department) ==
    [role |-> role, year |-> year, branch |-> branch, department |-> department]

\* The argument of an operation that takes none.
NoInput == [none |-> TRUE]

\* The records register is called with: a complete student record, a student
\* record without year, a faculty record.
RegisterPayloads ==
    {UserData("student", "3", "CSE", ""), UserData("student", "", "CSE", ""),
     UserData("faculty", "", "", "ECE")}

\* The argument an operation is called with where the argument is not the
\* point: register gets the complete student record.
Input(op) ==
    IF op = "login" THEN Credentials
    ELSE IF op = "register" THEN UserData("student", "3", "CSE", "")
    ELSE NoInput

\* this.api.get / this.api.post of each operation ("" for logout, which has none).
Method(op) ==
    IF op \in {"login", "register", "checkout"} THEN "POST"
    ELSE IF op = "logout" THEN ""
    ELSE "GET"

\* Mutant of Url: both attendance reads request the history.
UrlHistoryForBoth(op) ==
    IF op \in {"getAttendanceHistory", "getAttendanceAnalytics"}
    THEN "/student/attendance_history"
    ELSE ""

\* The path each operation requests.
Url(op) ==
    CASE op = "login" -> "/shared/login"
      [] op = "register" -> "/shared/register"
      [] op = "getStudentProfile" -> "/student/profile"
      [] op = "getTimetable" -> "/student/view_timetable"
      [] op = "getAttendanceHistory" -> "/student/attendance_history"
      [] op = "getAttendanceAnalytics" -> "/student/attendance_analytics"
      [] op = "checkout" -> "/student/checkout"
      [] OTHER -> ""

\* Mutant of RequestBody: register fills in a year the caller left out.
RequestBodyDefaultYear(op, input) ==
    IF op = "register" /\ input.role = "student" /\ input.year = ""
    THEN [input EXCEPT !.year = "1"]
    ELSE input

\* The body the operation hands to the transport: its argument, as given.
RequestBody(op, input) == input

\* No request has been built.
NoRequest == [method |-> "", url |-> "", data |-> NoInput]

\* The request an operation hands to the transport.
RequestOf(op, input) ==
    [method |-> Method(op), url |-> Url(op), data |-> RequestBody(op, input)]

\* Mutant of RetryOnFailure: a request that got no response is sent once more.
RetryOnNoResponse(resp, requests) == resp.http = 0 /\ requests < 2

\* Whether the client sends the request again after the exchange has settled
\* with resp: the response interceptor rejects and no operation loops.
RetryOnFailure(resp, requests) == FALSE

\* Mutant of StoreAfterResponse: a 401 response drops the stored token.
StoreAfterResponseDrop401(old, resp) ==
    IF resp.http = 401 THEN NoToken ELSE old

\* The value under key 'token' after the response interceptor has handled
\* resp: the interceptor does not touch the storage.
StoreAfterResponse(old, resp) == old

\* ------------------------------------------------- the login/signup screen

\* Text is a sequence of characters where the screen looks inside it (email,
\* password) and a string where it only tests for emptiness.
EmailOk == <<"a", "@", "b", ".", "c">>
EmailNoDot == <<"a", "@", "b">>
Emails == {<<>>, EmailOk, EmailNoDot}

PasswordOk == <<"P", "a", "s", "s", "w", "0", "r", "d", "!">>
PasswordShort == <<"P", "w", "0", "!">>
Passwords == {<<>>, PasswordOk, PasswordShort}

\* useState of formData: every field empty, role 'student'.
EmptyForm ==
    [id |-> "", name |-> "", role |-> "student", email |-> <<>>, password |-> <<>>,
     year |-> "", branch |-> "", department |-> "", username |-> ""]

\* The inputs the screen shows in each mode, for the selected role.
VisibleFields(login, role) ==
    IF login THEN {"role", "username", "password"}
    ELSE {"id", "name", "role", "email", "password"}
         \cup (IF role = "student" THEN {"year", "branch"} ELSE {"department"})

\* What the user may enter into a field.
FieldValues(field) ==
    CASE field = "role" -> {"student", "faculty"}
      [] field = "email" -> Emails
      [] field = "password" -> Passwords
      [] field = "username" -> {"", "u"}
      [] OTHER -> {"", "x"}

\* !formData[field]
IsEmpty(form, field) ==
    form[field] = (IF field \in {"email", "password"} THEN <<>> ELSE "")

\* /^[^\s@]+@[^\s@]+\.[^\s@]+$/.test(email)
EmailRegexTest(email) ==
    LET plain(k) == email[k] \notin {" ", "@"}
    IN  \E i \in 1..Len(email) : \E j \in 1..Len(email) :
            /\ 1 < i /\ i + 1 < j /\ j < Len(email)
            /\ email[i] = "@" /\ email[j] = "."
            /\ \A k \in 1..Len(email) : k # i => plain(k)

UpperCase ==
    {"A", "B", "C", "D", "E", "F", "G", "H", "I", "J", "K", "L", "M",
     "N", "O", "P", "Q", "R", "S", "T", "U", "V", "W", "X", "Y", "Z"}

Digits == {"0", "1", "2", "3", "4", "5", "6", "7", "8", "9"}

Specials == {"!", "@", "#", "$", "%", "^", "&", "*"}

validatePassword(password) ==
    /\ ~(Len(password) < 8)
    /\ \E k \in 1..Len(password) : password[k] \in UpperCase
    /\ \E k \in 1..Len(password) : password[k] \in Digits
    /\ \E k \in 1..Len(password) : password[k] \in Specials

\* The fields validateForm requires of a signup.
requiredFields(role) ==
    {"id", "name", "email", "password"}
    \cup (IF role = "student" THEN {"year", "branch"}
          ELSE IF role = "faculty" THEN {"department"}
          ELSE {})

\* Mutant of validateForm: a student need not give a year.
validateFormYearOptional(form, login) ==
    IF login
    THEN ~IsEmpty(form, "username") /\ ~IsEmpty(form, "password")
    ELSE /\ \A field \in requiredFields(form.role) \ {"year"} : ~IsEmpty(form, field)
         /\ EmailRegexTest(form.email)
         /\ validatePassword(form.password)

\* validateForm, for the formData and isLogin of the render it belongs to.
validateForm(form, login) ==
    IF login
    THEN ~IsEmpty(form, "username") /\ ~IsEmpty(form, "password")
    ELSE /\ \A field \in requiredFields(form.role) : ~IsEmpty(form, field)
         /\ EmailRegexTest(form.email)
         /\ validatePassword(form.password)

\* signupPayload of handleSubmit.
SignupPayload(form) ==
    IF form.role = "student"
    THEN [id |-> form.id, name |-> form.name, role |-> form.role, email |-> form.email,
          password |-> form.password, year |-> form.year, branch |-> form.branch]
    ELSE [id |-> form.id, name |-> form.name, role |-> form.role, email |-> form.email,
          password |-> form.password, department |-> form.department]

\* Mutant of navigateToAppropriateDashboard: every role gets the student's.
navigateToStudentDashboard(route, role) == "StudentDashboard"

\* navigateToAppropriateDashboard(role): the route after it.
navigateToAppropriateDashboard(route, role) ==
    IF role = "student" THEN "StudentDashboard"
    ELSE IF role = "faculty" THEN "FacultyDashboard"
    ELSE route

\* Mutant of SubmitEnabled: the submit button is never disabled.
SubmitAlwaysEnabled(loading) == TRUE

\* The submit button: disabled={isLoading}.
SubmitEnabled(loading) == ~loading

\* No handleSubmit is running or can be run again.
NoSubmit == [pc |-> "idle", form |-> EmptyForm, isLogin |-> TRUE, token |-> NoToken]

\* ------------------------------------------------- the data hook (useApiCall)

\* The fetches one mounted screen issues: the one of the mount and the refreshes.
MaxFetches == 3

\* The student screens that load their data through useApiCall.
Screens == {"Overview", "Attendance", "Timetable", "Profile"}

\* The client operations a screen's apiFunction awaits (with Promise.all when
\* there are several).
ScreenOps(screen) ==
    CASE screen = "Overview" -> {"getAttendanceAnalytics", "getStudentProfile"}
      [] screen = "Attendance" ->
            {"getAttendanceHistory", "getAttendanceAnalytics", "getAttendanceReport"}
      [] screen = "Timetable" -> {"getTimetable"}
      [] OTHER -> {"getStudentProfile"}

\* What the transport delivers to a screen's call: a 2xx success envelope
\* (any 2xx envelope for the timetable, whose callback is the only one that
\* inspects it), a 500 with a message, or no response at all.
HookAnswers(op) ==
    {resp \in Responses(op) :
        \/ /\ Is2xx(resp)
           /\ resp.body.data # "D2" /\ resp.body.timetable # "D2"
           /\ resp.body.status = "success" \/ op = "getTimetable"
        \/ resp.http = 500 /\ resp.body.message = "M1"
        \/ resp.code = "ERR_NETWORK"}

\* useState<T | null>(null): no data yet. The data of the hook is kept with
\* the number of the fetch that set it (0: none).
NoValue == [none |-> TRUE]
NoData == [fetch |-> 0, value |-> NoValue]

\* The default values of the student overview.
OverviewDefaults == [attendanceRate |-> "0"]

\* What a settled apiFunction hands to fetchData.
Resolves(value) == [kind |-> "resolve", value |-> value, message |-> ""]
Rejects(message) == [kind |-> "reject", value |-> NoValue, message |-> message]

\* The apiFunction of a screen once all its calls returned; got maps each
\* operation to the body it returned.
ApiFunctionResolved(screen, got) ==
    CASE screen = "Overview" ->
            Resolves([attendanceRate |->
                        IF got["getAttendanceAnalytics"].data = ""
                        THEN "0" ELSE got["getAttendanceAnalytics"].data])
      [] screen = "Attendance" ->
            Resolves([history |-> got["getAttendanceHistory"].data,
                      analytics |-> got["getAttendanceAnalytics"].data,
                      report |-> got["getAttendanceReport"].data])
      [] screen = "Timetable" ->
            IF got["getTimetable"].timetable = ""
            THEN Rejects("Invalid API response structure")
            ELSE Resolves([timetable |-> got["getTimetable"].timetable])
      [] OTHER -> Resolves([profile |-> got["getStudentProfile"].data])

\* The apiFunction of a screen when one of its calls threw: Promise.all
\* rejects with that error; the overview catches it and returns the defaults,
\* the timetable logs and rethrows, the others have no catch.
ApiFunctionRejected(screen, error) ==
    IF screen = "Overview" THEN Resolves(OverviewDefaults) ELSE Rejects(error.message)

\* The hook of a screen before its first effect ran. failed and succeeded are
\* history: the message of the client call that failed in the fetch that
\* completed last ("null" when none failed) and the calls of that fetch that
\* had returned by then; last is the outcome of the fetch issued last.
InitialHook(screen) ==
    [screen |-> screen, data |-> NoData, loading |-> TRUE, error |-> "null",
     refreshing |-> FALSE, fetches |-> {}, issued |-> 0, last |-> "none",
     failed |-> "null", succeeded |-> {}]

\* One running fetchData: its number, the calls still pending and the bodies
\* the others returned.
NewFetch(id, screen) == [id |-> id, pending |-> ScreenOps(screen), got |-> <<>>]

\* fetchData up to its await: setError(null), then the apiFunction is called.
FetchData(h) ==
    [h EXCEPT !.error = "null",
              !.issued = @ + 1,
              !.last = "pending",
              !.fetches = @ \cup {NewFetch(h.issued + 1, h.screen)}]

\* Mutant of Finally: the finally block forgets the refresh indicator.
FinallyLoadingOnly(h) == [h EXCEPT !.loading = FALSE]

\* finally { setLoading(false); setRefreshing(false) }
Finally(h) == [h EXCEPT !.loading = FALSE, !.refreshing = FALSE]

\* Mutant of Caught: the catch block clears the data as well.
CaughtClearsData(h, message) == [h EXCEPT !.error = message, !.data = NoData]

\* catch (err) { setError(err instanceof Error ? err.message : 'An error occurred') }
Caught(h, message) == [h EXCEPT !.error = message]

\* fetchData after its await: setData(result) when the apiFunction resolved,
\* the catch block when it rejected. Nothing compares the fetch with the one
\* issued last.
Awaited(h, f, outcome) ==
    IF outcome.kind = "resolve"
    THEN [h EXCEPT !.data = [fetch |-> f.id, value |-> outcome.value]]
    ELSE Caught(h, outcome.message)

\* What the screen renders: the spinner while loading && !refreshing, the
\* error view (the timetable only: the other screens do not read error), else
\* the content under its RefreshControl.
RendersError(screen) == screen = "Timetable"

ScreenView(h) ==
    IF h.loading /\ ~h.refreshing
    THEN "spinner"
    ELSE IF RendersError(h.screen) /\ h.error # "null"
    THEN "error"
    ELSE "content"

\* ------------------------------------------------------------------ state

VARIABLES
    store,        \* AsyncStorage: the value under key 'token'
    currentUser,  \* ApiService.currentUser
    call,         \* the client calls in progress (a bag: calls are anonymous)
    authed,       \* history: token of the last login that resolved, NoToken once a logout resolved
    loggedOut,    \* history: a logout has resolved and no login called after it has resolved
    formData,     \* login screen: useState formData
    isLogin,      \* login screen: useState isLogin
    isLoading,    \* login screen: useState isLoading
    alert,        \* login screen: the Alert on display ("none" when there is none)
    route,        \* the navigator's current route
    submit,       \* login screen: the handleSubmit last started: the await it is at
                  \* and the formData and isLogin of the render it belongs to
    session,      \* login screen: checkExistingSession: the await it is at, the token it read
    userItem,     \* AsyncStorage: the role of the user under key 'user' ("null" when absent)
    userRole,     \* AsyncStorage: the value under key 'userRole'
    screenAccess, \* history: the accesses to key 'token' the login screen made itself
    edits,        \* the changes the user made to the form while the submission
                  \* that 'Retry' runs again was running
    hook          \* useApiCall: the state of the hook of the mounted student screen

\* The variables of the login screen and of the storage keys only it uses.
screenVars ==
    <<formData, isLogin, isLoading, alert, route, submit, session, userItem,
      userRole, screenAccess, edits>>

vars == <<store, currentUser, call, authed, loggedOut, screenVars, hook>>

\* A call in progress: its operation, the await it is at (pc), the token read by
\* the request interceptor and the header it set, the settled exchange and
\* the outcome; input is the argument it was called with, req the request it
\* handed to the transport and requests the number of requests it has handed
\* over so far.  The fields clean, win, lo and fresh are history:
\* clean: the call is waiting for its credential read and no login or logout has
\*        resolved since it was issued;
\* win:   (from the credential read on) the token of the login that had resolved
\*        when the call was issued, if no login or logout resolved between the
\*        issue and the credential read; NoToken otherwise;
\* lo:    (from the credential read on) a logout had resolved when the call was
\*        issued, no login called after that logout had resolved, and no login or
\*        logout resolved between the issue and the credential read;
\* fresh: the call is a login and no logout has resolved since it was issued.
NewCall(op) ==
    [op |-> op, pc |-> IF op = "logout" THEN "removing" ELSE "reading",
     tok |-> NoToken, hdr |-> NoHdr, resp |-> NoResp, result |-> NoResult,
     input |-> NoInput, req |-> NoRequest, requests |-> 0,
     clean |-> op # "logout", win |-> NoToken, lo |-> FALSE, fresh |-> (op = "login")]

InProgress == BagToSet(call)

\* A resolved promise is consumed by its awaiting caller before any other
\* completion is delivered (run to completion of the continuation).
NoneDone == \A r \in InProgress : r.pc # "done"

\* The bag with one copy of call r replaced by call q.
Replace(bag, r, q) == (bag (-) SetToBag({r})) (+) SetToBag({q})

RECURSIVE Copies(_, _)
\* The number of calls of the bag that are among the records S.
Copies(bag, S) ==
    IF S = {} THEN 0
    ELSE LET x == CHOOSE y \in S : TRUE
         IN  bag[x] + Copies(bag, S \ {x})

\* The history of a call in progress after a login or a logout has resolved.
AfterAuth(r, isLogout) ==
    [r EXCEPT !.clean = FALSE, !.fresh = r.fresh /\ ~isLogout]

\* The calls in progress once call r has resolved a login or a logout as q.
ResolveAuth(r, q, isLogout) ==
    LET others == call (-) SetToBag({r})
        S == BagToSet(others)
        img == {AfterAuth(x, isLogout) : x \in S}
    IN  [y \in img |-> Copies(others, {x \in S : AfterAuth(x, isLogout) = y})]
        (+) SetToBag({q})

Init ==
    /\ store \in Tokens \cup {NoToken}
    /\ currentUser = "null"
    /\ call = EmptyBag
    /\ authed = NoToken
    /\ loggedOut = FALSE
    /\ formData = EmptyForm
    /\ isLogin = TRUE
    /\ isLoading = FALSE
    /\ alert = "none"
    /\ route = "LoginSignup"
    /\ submit = NoSubmit
    /\ session = [pc |-> "token", token |-> NoToken]
    /\ userItem = "null"
    /\ userRole = "null"
    /\ screenAccess = {}
    /\ edits = 0
    /\ hook = InitialHook("none")

\* ---------------------------------------------------------------- actions

\* A caller invokes a client operation; the operation runs to its first await:
\* the credential read of the request interceptor, or removeItem for logout.
Start(op, input) ==
    /\ NoneDone
    /\ BagCardinality(call) < MaxCalls
    /\ call' = call (+) SetToBag({[NewCall(op) EXCEPT !.input = input]})
    /\ UNCHANGED <<store, currentUser, authed, loggedOut>>
    /\ UNCHANGED <<screenVars, hook>>

\* await this.getToken() completes in the request interceptor; the header is
\* set and the request is handed to the transport.
ReadToken(r) ==
    /\ NoneDone
    /\ r.pc = "reading"
    /\ call' = Replace(call, r,
                 [r EXCEPT !.tok = IF Intercepted(r.op) THEN store ELSE NoToken,
                           !.hdr = IF Intercepted(r.op)
                                   THEN RequestInterceptor(store)
                                   ELSE NoHdr,
                           !.pc = "sent",
                           !.req = RequestOf(r.op, r.input),
                           !.requests = r.requests + 1,
                           !.clean = FALSE,
                           !.win = IF r.clean THEN authed ELSE NoToken,
                           !.lo = r.clean /\ loggedOut])
    /\ UNCHANGED <<store, currentUser, authed, loggedOut>>
    /\ UNCHANGED <<screenVars, hook>>

\* The exchange settles with resp; the response interceptor and the
\* operation's body run up to the next await or to the end.
Respond(r, resp) ==
    /\ NoneDone
    /\ r.pc = "sent"
    /\ resp \in Responses(r.op)
    /\ call' = Replace(call, r,
                 IF RetryOnFailure(resp, r.requests)
                 THEN [NewCall(r.op) EXCEPT !.input = r.input, !.requests = r.requests,
                                            !.clean = FALSE, !.fresh = r.fresh]
                 ELSE IF WritesToken(r.op, resp)
                 THEN [NewCall(r.op) EXCEPT !.pc = "writing", !.resp = resp,
                                            !.requests = r.requests,
                                            !.clean = FALSE, !.fresh = r.fresh]
                 ELSE [NewCall(r.op) EXCEPT !.pc = "done", !.resp = resp,
                                            !.result = OperationResult(r.op, resp),
                                            !.requests = r.requests,
                                            !.clean = FALSE, !.fresh = FALSE])
    /\ store' = StoreAfterResponse(store, resp)
    /\ UNCHANGED <<currentUser, authed, loggedOut>>
    /\ UNCHANGED <<screenVars, hook>>

\* await this.setToken(response.data.token) completes and the operation
\* returns response.data.
SetToken(r) ==
    /\ NoneDone
    /\ r.pc = "writing"
    /\ store' = SetItem(store, r.resp.body.token)
    /\ call' = ResolveAuth(r, [r EXCEPT !.pc = "done",
                                        !.result = OperationResult(r.op, r.resp),
                                        !.fresh = FALSE],
                           FALSE)
    /\ authed' = IF r.op = "login" THEN r.resp.body.token ELSE authed
    /\ loggedOut' = (loggedOut /\ ~r.fresh)
    /\ UNCHANGED currentUser
    /\ UNCHANGED <<screenVars, hook>>

\* logout: await AsyncStorage.removeItem('token') completes; currentUser = null.
LogoutDone(r) ==
    /\ NoneDone
    /\ r.pc = "removing"
    /\ store' = RemoveItem(store)
    /\ currentUser' = "null"
    /\ call' = ResolveAuth(r, [r EXCEPT !.pc = "done", !.result = Returned(NoBody)], TRUE)
    /\ authed' = NoToken
    /\ loggedOut' = TRUE
    /\ UNCHANGED <<screenVars, hook>>

\* The awaiting caller takes the result; the call is over.
Return(r) ==
    /\ r.pc = "done"
    /\ call' = call (-) SetToBag({r})
    /\ UNCHANGED <<store, currentUser, authed, loggedOut>>
    /\ UNCHANGED <<screenVars, hook>>

Next ==
    \/ \E op \in Ops : Start(op, Input(op))
    \/ \E r \in InProgress : ReadToken(r)
    \/ \E r \in InProgress : \E resp \in Responses(r.op) : Respond(r, resp)
    \/ \E r \in InProgress : SetToken(r)
    \/ \E r \in InProgress : LogoutDone(r)
    \/ \E r \in InProgress : Return(r)

Spec == Init /\ [][Next]_vars

\* ------------------------------------------------------------ register alone

\* The client used for register alone, with every record it may be given.
NextRegister ==
    \/ \E input \in RegisterPayloads : Start("register", input)
    \/ \E r \in InProgress : ReadToken(r)
    \/ \E r \in InProgress : \E resp \in Responses(r.op) : Respond(r, resp)
    \/ \E r \in InProgress : Return(r)

SpecRegister == Init /\ [][NextRegister]_vars

\* ------------------------------------------- two concurrent attendance reads

\* The two reads the attendance screen starts together.
PairOps == {"getAttendanceHistory", "getAttendanceAnalytics"}

\* What the server holds under each path.
ServerData(url) ==
    IF url = "/student/attendance_history" THEN "D1"
    ELSE IF url = "/student/attendance_analytics" THEN "D2"
    ELSE ""

\* What the transport may deliver for a dispatched request: the data held under
\* the requested path, or any of the failures.
Answers(req) ==
    {Response(200, "", "", Envelope("success", NoToken, "", ServerData(req.url), ""))}
    \cup {resp \in Responses("getAttendanceHistory") : ~Is2xx(resp)}

\* The exchange of a dispatched read settles.
Answer(r) ==
    /\ r.pc = "sent"
    /\ \E resp \in Answers(r.req) : Respond(r, resp)

\* The client used by the attendance reads alone: no login and no logout.
NextPair ==
    \/ \E op \in PairOps : Start(op, Input(op))
    \/ \E r \in InProgress : ReadToken(r)
    \/ \E r \in InProgress : Answer(r)
    \/ \E r \in InProgress : Return(r)

SpecPair == Init /\ [][NextPair]_vars

\* ------------------------------------------- the login/signup screen's steps

\* The variables of the client that no step of the screen changes.
clientHistory == <<currentUser, authed, loggedOut>>

\* The screen is mounted and no Alert covers it.
Usable == route = "LoginSignup" /\ alert = "none" /\ NoneDone

\* checkExistingSession: await AsyncStorage.getItem('token') completes.
CheckSessionToken ==
    /\ session.pc = "token"
    /\ session' = [pc |-> "user", token |-> store]
    /\ screenAccess' = screenAccess \cup {"getItem"}
    /\ UNCHANGED <<hook, store, call, clientHistory, formData, isLogin, isLoading, alert,
                   route, submit, userItem, userRole, edits>>

\* checkExistingSession: await AsyncStorage.getItem('user') completes; with
\* both items present the screen navigates by the stored user's role.
CheckSessionUser ==
    /\ session.pc = "user"
    /\ session' = [session EXCEPT !.pc = "done"]
    /\ route' = IF session.token # NoToken /\ userItem # "null"
                THEN navigateToAppropriateDashboard(route, userItem)
                ELSE route
    /\ UNCHANGED <<hook, store, call, clientHistory, formData, isLogin, isLoading, alert,
                   submit, userItem, userRole, screenAccess, edits>>

\* The user changes the form: counted while a submission is running.
Edit ==
    /\ isLoading => edits < MaxEdits
    /\ edits' = IF isLoading THEN edits + 1 ELSE edits

\* handleChange(name, value) on an input the screen shows.
handleChange(name, value) ==
    /\ Usable
    /\ name \in VisibleFields(isLogin, formData.role)
    /\ formData[name] # value
    /\ formData' = [formData EXCEPT ![name] = value]
    /\ Edit
    /\ UNCHANGED <<hook, store, call, clientHistory, isLogin, isLoading, alert, route,
                   submit, session, userItem, userRole, screenAccess>>

\* The switch between login and signup: setIsLogin(!isLogin) and a reset form.
ToggleMode ==
    /\ Usable
    /\ isLogin' = ~isLogin
    /\ formData' = EmptyForm
    /\ Edit
    /\ UNCHANGED <<hook, store, call, clientHistory, isLoading, alert, route, submit,
                   session, userItem, userRole, screenAccess>>

\* handleSubmit up to its first await, for the formData and isLogin of the
\* render it belongs to: an invalid form raises validateForm's Alert and
\* nothing else; a valid one sets isLoading and calls login or register.
HandleSubmit(form, login) ==
    IF ~validateForm(form, login)
    THEN /\ alert' = "validation"
         /\ UNCHANGED <<isLoading, submit, call>>
    ELSE /\ alert' = "none"
         /\ isLoading' = TRUE
         /\ submit' = [pc |-> "awaiting", form |-> form, isLogin |-> login,
                       token |-> NoToken]
         /\ call' = call (+) SetToBag({
                [NewCall(IF login THEN "login" ELSE "register")
                    EXCEPT !.input = IF login
                                     THEN [username |-> form.username,
                                           password |-> form.password]
                                     ELSE SignupPayload(form)]})

\* The user presses the submit button (disabled while isLoading).
PressSubmit ==
    /\ Usable
    /\ SubmitEnabled(isLoading)
    /\ HandleSubmit(formData, isLogin)
    /\ UNCHANGED <<hook, store, clientHistory, formData, isLogin, route, session,
                   userItem, userRole, screenAccess, edits>>

\* The user presses 'Retry' on the 'Connection Error' Alert: handleSubmit of
\* the render that raised the Alert runs again.
PressRetry ==
    /\ alert = "connection"
    /\ HandleSubmit(submit.form, submit.isLogin)
    /\ UNCHANGED <<hook, store, clientHistory, formData, isLogin, route, session,
                   userItem, userRole, screenAccess, edits>>

\* The user dismisses validateForm's Alert or presses 'Cancel': the
\* handleSubmit that 'Retry' would have run again is out of reach.
DismissAlert ==
    /\ alert \in {"validation", "connection"}
    /\ alert' = "none"
    /\ submit' = NoSubmit
    /\ edits' = 0
    /\ UNCHANGED <<hook, store, call, clientHistory, formData, isLogin, isLoading, route,
                   session, userItem, userRole, screenAccess>>

\* The user presses 'OK' on the 'Success' Alert of a signup.
PressOk ==
    /\ alert = "success"
    /\ alert' = "none"
    /\ isLogin' = TRUE
    /\ formData' = EmptyForm
    /\ UNCHANGED <<hook, store, call, clientHistory, isLoading, route, submit, session,
                   userItem, userRole, screenAccess, edits>>

\* handleSubmit resumes after await apiService.login / register: a rejection
\* goes to catch (the 'Connection Error' Alert) and finally; a login that
\* returned status 'success' goes on to store the token; a register that
\* returned status 'success' raises the 'Success' Alert; finally resets
\* isLoading when handleSubmit ends.
SubmitResumes(r) ==
    /\ r.pc = "done"
    /\ submit.pc = "awaiting"
    /\ call' = call (-) SetToBag({r})
    /\ IF r.result.kind = "throw"
       THEN /\ alert' = "connection"
            /\ isLoading' = FALSE
            /\ UNCHANGED edits
            /\ submit' = [submit EXCEPT !.pc = "idle"]
       ELSE IF r.result.value.status # "success"
       THEN /\ isLoading' = FALSE
            /\ edits' = 0
            /\ submit' = NoSubmit
            /\ UNCHANGED alert
       ELSE IF submit.isLogin
       THEN /\ submit' = [submit EXCEPT !.pc = "storingToken",
                                        !.token = r.result.value.token]
            /\ UNCHANGED <<alert, isLoading, edits>>
       ELSE /\ alert' = "success"
            /\ isLoading' = FALSE
            /\ edits' = 0
            /\ submit' = NoSubmit
    /\ UNCHANGED <<hook, store, clientHistory, formData, isLogin, route, session,
                   userItem, userRole, screenAccess>>

\* handleSubmit: await AsyncStorage.setItem('token', loginResponse.token) completes.
StoreToken ==
    /\ submit.pc = "storingToken"
    /\ NoneDone
    /\ store' = SetItem(store, submit.token)
    /\ screenAccess' = screenAccess \cup {"setItem"}
    /\ submit' = [submit EXCEPT !.pc = "storingRole"]
    /\ UNCHANGED <<hook, call, clientHistory, formData, isLogin, isLoading, alert, route,
                   session, userItem, userRole, edits>>

\* handleSubmit: await AsyncStorage.setItem('userRole', formData.role)
\* completes; navigateToAppropriateDashboard(formData.role); finally.
StoreRole ==
    /\ submit.pc = "storingRole"
    /\ NoneDone
    /\ userRole' = SetItem(userRole, submit.form.role)
    /\ route' = navigateToAppropriateDashboard(route, submit.form.role)
    /\ isLoading' = FALSE
    /\ submit' = NoSubmit
    /\ edits' = 0
    /\ UNCHANGED <<hook, store, call, clientHistory, formData, isLogin, alert, session,
                   userItem, screenAccess>>

\* The login screen on top of the client: the only calls are handleSubmit's.
NextScreen ==
    \/ CheckSessionToken
    \/ CheckSessionUser
    \/ \E name \in DOMAIN EmptyForm : \E value \in FieldValues(name) :
          handleChange(name, value)
    \/ ToggleMode
    \/ PressSubmit
    \/ PressRetry
    \/ DismissAlert
    \/ PressOk
    \/ \E r \in InProgress : ReadToken(r)
    \/ \E r \in InProgress : \E resp \in Responses(r.op) : Respond(r, resp)
    \/ \E r \in InProgress : SetToken(r)
    \/ \E r \in InProgress : SubmitResumes(r)
    \/ StoreToken
    \/ StoreRole

SpecScreen == Init /\ [][NextScreen]_vars

\* ------------------------------------------------ the app is started again

\* The app is started again after a login took it to a dashboard: the
\* navigator opens on LoginSignup, the screen has its initial state and
\* checkExistingSession runs anew; AsyncStorage keeps what it holds.
Remount ==
    /\ route \in {"StudentDashboard", "FacultyDashboard"}
    /\ call = EmptyBag
    /\ submit.pc = "idle"
    /\ route' = "LoginSignup"
    /\ formData' = EmptyForm
    /\ isLogin' = TRUE
    /\ isLoading' = FALSE
    /\ alert' = "none"
    /\ submit' = NoSubmit
    /\ session' = [pc |-> "token", token |-> NoToken]
    /\ edits' = 0
    /\ currentUser' = "null"
    /\ UNCHANGED <<hook, store, call, authed, loggedOut, userItem, userRole, screenAccess>>

\* The login screen over several starts of the app.
NextRemount ==
    \/ NextScreen
    \/ Remount

SpecRemount == Init /\ [][NextRemount]_vars

\* ------------------------------------------------- the student screens' hook

\* The student screens are taken on their own: one of them mounts, and its
\* hook runs against the answers of the transport.

\* No screen of the student dashboard is mounted.
NoHook == InitialHook("none")

\* The variables the hook leaves alone.
appVars == <<store, currentUser, call, authed, loggedOut, screenVars>>

\* The screens whose own handlers call onRefresh (after marking attendance,
\* after a correction request, after a profile update), so that a refresh can
\* start while another one is running.
RefreshesItself(screen) == screen \in {"Attendance", "Profile"}

\* useEffect(() => { fetchData() }, [fetchData]) of a screen that mounts.
MountScreen(screen) ==
    /\ hook = NoHook
    /\ hook' = FetchData(InitialHook(screen))
    /\ UNCHANGED appVars

\* onRefresh: setRefreshing(true), then fetchData. It is reached from the
\* RefreshControl of the content, from the timetable's Retry button, or from
\* a handler of the screen; none of them is there while the spinner shows.
OnRefresh ==
    /\ hook.issued \in 1..(MaxFetches - 1)
    /\ ScreenView(hook) # "spinner"
    /\ ~hook.refreshing \/ RefreshesItself(hook.screen)
    /\ hook' = FetchData([hook EXCEPT !.refreshing = TRUE])
    /\ UNCHANGED appVars

\* One call of a running fetch settles. While other calls of the fetch are
\* pending and this one returned, Promise.all keeps waiting; otherwise the
\* apiFunction settles and fetchData runs to its end.
CallSettles(f, op, resp) ==
    /\ f \in hook.fetches
    /\ op \in f.pending
    /\ resp \in HookAnswers(op)
    /\ LET result == OperationResult(op, resp)
           got == f.got @@ (op :> result.value)
           others == hook.fetches \ {f}
       IN  IF result.kind = "return" /\ f.pending # {op}
           THEN hook' = [hook EXCEPT !.fetches =
                            others \cup {[f EXCEPT !.pending = @ \ {op}, !.got = got]}]
           ELSE LET outcome == IF result.kind = "return"
                               THEN ApiFunctionResolved(hook.screen, got)
                               ELSE ApiFunctionRejected(hook.screen, result.error)
                IN  hook' = [Finally(Awaited(hook, f, outcome)) EXCEPT
                                !.fetches = others,
                                !.last = IF f.id # hook.issued THEN @
                                         ELSE IF outcome.kind = "resolve" THEN "ok"
                                         ELSE "fail",
                                !.failed = IF result.kind = "throw"
                                           THEN result.error.message ELSE "null",
                                !.succeeded = IF result.kind = "throw"
                                              THEN DOMAIN f.got ELSE DOMAIN got]
    /\ UNCHANGED appVars

NextHook ==
    \/ \E screen \in Screens : MountScreen(screen)
    \/ OnRefresh
    \/ \E f \in hook.fetches : \E op \in f.pending : \E resp \in HookAnswers(op) :
          CallSettles(f, op, resp)

\* The hook reads nothing of the login screen or of the stored credential:
\* the runs start without a stored token.
InitHook == Init /\ store = NoToken

SpecHook == InitHook /\ [][NextHook]_vars

\* ------------------------------------------------------------- the claims

Done(r) == r.pc = "done" /\ r.op # "logout"

\* The calls of the bag that wait for their credential read.
ReadingCount(bag) == Copies(bag, {x \in BagToSet(bag) : x.pc = "reading"})

\* C1: a client operation issued after login() has resolved successfully with
\* token T, and whose credential read completes before any later logout or
\* login has resolved, is sent with the header Authorization = 'Bearer T'.
C1_BearerAfterLogin ==
    \A r \in InProgress :
        r.pc = "sent" /\ r.win # NoToken => r.hdr = Bearer(r.win)

\* C1 witness: a bearer operation issued after a login resolved is in flight
\* with that login's token.
C1_Witness ==
    \E r \in InProgress :
        /\ r.pc = "sent" /\ r.op = "getStudentProfile"
        /\ r.win \in Tokens /\ r.hdr = Bearer(r.win)

\* C2 (as claimed): a client operation issued after logout() has resolved, and
\* sent before a login called after that logout has resolved, carries no
\* Authorization header, also when a login was in flight when logout was called.
C2_NoBearerAfterLogout ==
    \A r \in InProgress :
        r.pc = "sent" /\ r.lo => r.hdr = NoHdr

\* The value a caller would get if an operation returned the payload field alone.
PayloadOf(op, body) ==
    [payload |-> IF op = "getTimetable" THEN body.timetable ELSE body.data]

C4_NonSuccessEnvelopeRaises ==
    \A r \in InProgress :
        Done(r) /\ Is2xx(r.resp) /\ r.resp.body.status # "success"
            => r.result.kind = "throw" /\ r.result.error.message = r.resp.body.message

\* C5 (as claimed): a transport failure with no response (not a timeout) ends
\* every operation with the fixed connectivity message.
C5_ConnectivityMessage ==
    \A r \in InProgress :
        Done(r) /\ r.resp.http = 0 /\ r.resp.code # "ECONNABORTED"
            => /\ r.result.kind = "throw"
               /\ r.result.error.message
                    = "Please check your internet connection and try again"

\* C6 (as claimed): a timeout (code ECONNABORTED, no response) ends the
\* operation with the fixed timeout message, which is not the connectivity one.
C6_TimeoutMessage ==
    \A r \in InProgress :
        Done(r) /\ r.resp.code = "ECONNABORTED"
            => /\ r.result.kind = "throw"
               /\ r.result.error.message = "Request timed out. Please try again"

\* The messages that stand in when the server sent none: the transport's own
\* message for the status, or the fixed last resort of handleApiError.
GenericMessages ==
    {"Request failed with status code 401", "Request failed with status code 500",
     "An unexpected error occurred"}

\* C7: a non-2xx response raises an error that carries the message field of
\* the response body when there is one and a generic message otherwise; the
\* message of the raised error is never empty.
C7_ServerMessageOrFallback ==
    \A r \in InProgress :
        Done(r) /\ r.resp.http \notin {0, 200}
            => /\ r.result.kind = "throw"
               /\ r.result.error.message # ""
               /\ r.resp.body.message # "" => r.result.error.message = r.resp.body.message
               /\ r.resp.body.message = "" => r.result.error.message \in GenericMessages

\* C7 witness: login has raised the server's message of a 401 response.
C7_Witness ==
    \E r \in InProgress :
        /\ Done(r) /\ r.op = "login" /\ r.resp.http = 401
        /\ r.resp.body.message = "M1" /\ r.result.error.message = "M1"

\* C8: when login() resolves successfully with a response whose token is T,
\* the credential store holds T.
C8_TokenStoredWhenLoginResolves ==
    \A r \in InProgress :
        r.pc = "done" /\ r.op = "login" /\ r.result.kind = "return"
            => r.result.value.token \in Tokens /\ store = r.result.value.token

\* C8 witness: a login has just resolved with a token.
C8_Witness ==
    \E r \in InProgress :
        /\ r.pc = "done" /\ r.op = "login" /\ r.result.kind = "return"
        /\ store = r.result.value.token

\* C9: when no credential is stored, the credential read never blocks a call,
\* and the call whose read finds nothing goes on to send its request, without
\* an Authorization header.
C9_BestEffortAttachment ==
    /\ [](\A r \in InProgress : r.pc = "reading" /\ NoneDone => ENABLED ReadToken(r))
    /\ [][ReadingCount(call') < ReadingCount(call) /\ store = NoToken
            => \E q \in BagToSet(call') :
                  /\ q.pc = "sent" /\ q.tok = NoToken /\ q.hdr = NoHdr
                  /\ CopiesIn(q, call') > CopiesIn(q, call)]_vars

\* C9 witness: a request is in flight that was sent without a header because
\* nothing was stored.
C9_Witness ==
    \E r \in InProgress :
        r.pc = "sent" /\ r.op = "checkout" /\ r.tok = NoToken /\ r.hdr = NoHdr

\* C10: the stored credential changes only in the step that resolves a
\* successful login or a logout; register, the bearer operations and every
\* failed call leave it as it was.
C10_OnlyLoginAndLogoutWrite ==
    [][store' # store
         => \E q \in BagToSet(call') :
               /\ q.pc = "done"
               /\ \/ q.op = "login" /\ q.result.kind = "return"
                  \/ q.op = "logout"]_vars

\* C10 witness: register has returned a success envelope that carries a token,
\* and the stored credential is still the one of the login that resolved before.
C10_Witness ==
    \E r \in InProgress :
        /\ Done(r) /\ r.op = "register" /\ r.result.kind = "return"
        /\ r.result.value.token \in Tokens
        /\ authed \in Tokens /\ store = authed /\ store # r.result.value.token

\* C12: every transport failure (no response, timeout, non-2xx status) reaches
\* the caller as a rejection that carries an Error with a message; none is
\* turned into a normal return.
C12_FailureIsRejected ==
    \A r \in InProgress :
        Done(r) /\ ~Is2xx(r.resp)
            => /\ r.result.kind = "throw"
               /\ r.result.error.message # ""

\* C12 witness: a non-login operation that catches and rethrows has rejected
\* after a request that got no response.
C12_Witness ==
    \E r \in InProgress :
        /\ Done(r) /\ r.op = "checkout" /\ r.resp.http = 0
        /\ r.result.kind = "throw" /\ r.result.error.message = "Network Error"

\* C15: register does not validate: for every payload, the student payload
\* without year included, it issues exactly one request, a POST to
\* /shared/register whose body is the payload as given.
C15_RegisterSendsPayloadAsGiven ==
    \A r \in InProgress :
        r.op = "register"
            => /\ r.pc = "sent"
                    => r.req = [method |-> "POST", url |-> "/shared/register",
                                data |-> r.input]
               /\ r.requests = (IF r.pc = "reading" THEN 0 ELSE 1)

\* C15 witness: register is in flight with a student payload without year.
C15_Witness ==
    \E r \in InProgress :
        /\ r.op = "register" /\ r.pc = "sent" /\ r.requests = 1
        /\ r.input.role = "student" /\ r.input.year = ""
        /\ r.req.data = r.input

\* A step in which call r ends with an error although its credential read has
\* not completed.
EndsWhileReading(r) ==
    /\ Next
    /\ \E q \in BagToSet(call') :
          /\ q.op = r.op /\ q.pc = "done" /\ q.result.kind = "throw"
          /\ call' = Replace(call, r, q)

\* C17 (as claimed): the credential read before sending inherits the call's
\* timeout: while the read is pending, the call can still end with the
\* timeout error.
C17_ReadInheritsTimeout ==
    \A r \in InProgress :
        r.pc = "reading" /\ NoneDone => ENABLED EndsWhileReading(r)

\* The login calls of the bag that have not settled their exchange.
LoginsInFlight(bag) ==
    Copies(bag, {x \in BagToSet(bag) : x.op = "login" /\ x.pc \in {"reading", "sent"}})

\* The message the server sent, or the transport's when it sent none.
MessageOf(resp) ==
    IF resp.body.message # "" THEN resp.body.message ELSE resp.axiosMessage

\* C18: a 401 response to a call that carried a bearer header is surfaced as
\* an ordinary error with the server's message, and triggers no
\* re-authentication: the step that settles the call issues no login request
\* and leaves the stored credential unchanged.
C18_NoReauthenticationOn401 ==
    [][\A r \in InProgress : \A q \in BagToSet(call') :
          /\ r.pc = "sent" /\ r.hdr # NoHdr
          /\ q.pc = "done" /\ q.op = r.op /\ q.resp.http = 401
          => /\ q.result.kind = "throw"
             /\ q.result.error.message = MessageOf(q.resp)
             /\ store' = store
             /\ LoginsInFlight(call') = LoginsInFlight(call) - (IF r.op = "login" THEN 1 ELSE 0)
             /\ BagCardinality(call') = BagCardinality(call)]_vars

\* C18 witness: a call sent with a bearer header has been rejected with the
\* message of the 401 response, and the credential is still stored.
C18_Witness ==
    \E r \in InProgress :
        /\ Done(r) /\ r.op = "getStudentProfile"
        /\ r.resp.http = 401 /\ r.resp.body.message = "M1"
        /\ r.result.kind = "throw" /\ r.result.error.message = "M1"
        /\ store \in Tokens /\ authed = NoToken /\ ~loggedOut

\* C19: logout clears the stored credential locally and issues no network
\* request.
C19_LogoutIsLocal ==
    \A r \in InProgress :
        r.op = "logout"
            => /\ r.pc \in {"removing", "done"}
               /\ r.requests = 0 /\ r.req = NoRequest
               /\ r.pc = "done" => store = NoToken

\* C19 witness: logout has resolved while a call that read the credential
\* before is still in flight.
C19_Witness ==
    \E r \in InProgress : \E q \in InProgress :
        /\ r.op = "logout" /\ r.pc = "done" /\ r.requests = 0
        /\ q.pc = "sent" /\ q.hdr # NoHdr
        /\ store = NoToken

\* The successful answer to a read of the given path.
Success(url) == Response(200, "", "", Envelope("success", NoToken, "", ServerData(url), ""))

\* C16: two concurrent calls, getAttendanceHistory and getAttendanceAnalytics,
\* succeed independently under every interleaving of their credential reads and
\* exchanges: neither waits for the other, each returns its own response, and
\* with a token stored (no login or logout running) each request carries it.
C16_ConcurrentReadsIndependent ==
    \A r \in InProgress :
        /\ r.pc = "sent" /\ store \in Tokens => r.hdr = Bearer(store)
        /\ r.pc = "reading" /\ NoneDone => ENABLED ReadToken(r)
        /\ r.pc = "sent" /\ NoneDone => ENABLED Answer(r)
        /\ Done(r) /\ Is2xx(r.resp)
             => /\ r.result.kind = "return"
                /\ r.op = "getAttendanceHistory"
                     => r.result.value = Success("/student/attendance_history").body
                /\ r.op = "getAttendanceAnalytics"
                     => r.result.value = Success("/student/attendance_analytics").body

\* C16 witness: the analytics read, sent with the stored token, has returned
\* its own data while the history read started with it is still in flight.
C16_Witness ==
    \E r \in InProgress : \E q \in InProgress :
        /\ r.op = "getAttendanceAnalytics" /\ Done(r)
        /\ r.result.kind = "return" /\ r.result.value.data = "D2"
        /\ q.op = "getAttendanceHistory" /\ q.pc = "sent"
        /\ store \in Tokens /\ q.hdr = Bearer(store)

\* C11 (as claimed): no component other than ApiService reads or writes the
\* key 'token' directly; in particular the login/signup screen does not, neither
\* on mount nor after a login.
C11_TokenKeyOnlyClient == screenAccess = {}

\* C13: there is no automatic retry: one invocation of an operation hands at
\* most one request to the transport; on the login screen a call of the client
\* starts only in the step in which the user presses the submit button or,
\* after a failure, 'Retry', and while the 'Connection Error' Alert waits for
\* the user no call is in progress.
C13_NoAutomaticRetry ==
    /\ [](\A r \in InProgress : r.requests <= 1)
    /\ [](alert = "connection" => call = EmptyBag)
    /\ [][BagCardinality(call') > BagCardinality(call)
            => IF alert = "connection" THEN PressRetry ELSE PressSubmit]_vars

\* C13 witness: a login has failed, the 'Connection Error' Alert offers
\* 'Retry', and nothing has been sent again.
C13_Witness ==
    /\ alert = "connection" /\ submit.isLogin /\ submit.pc = "idle"
    /\ ~isLoading /\ call = EmptyBag

\* The forms the claim names: a login without username or password, a
\* student's signup without year.
LacksRequired(form, login) ==
    IF login
    THEN form.username = "" \/ form.password = <<>>
    ELSE form.role = "student" /\ form.year = ""

\* C14: a signup with role 'student' and an empty year, and a login with an
\* empty username or password, is rejected by the form before any network
\* call: pressing the submit button on such a form starts no call, and no
\* login or register in progress carries such values.
C14_InvalidFormStartsNoCall ==
    /\ [](\A r \in InProgress :
            r.pc \in {"reading", "sent"}
                => /\ r.op = "login"
                        => r.input.username # "" /\ r.input.password # <<>>
                   /\ r.op = "register" /\ r.input.role = "student"
                        => r.input.year # "")
    /\ [][Usable /\ ~isLoading /\ LacksRequired(formData, isLogin)
            => call' = call /\ isLoading' = isLoading]_vars

\* C14 witness: the submit button was pressed on a student's signup that
\* lacks nothing but the year; the form's Alert is up and no call was made.
C14_Witness ==
    /\ alert = "validation" /\ ~isLogin /\ ~isLoading /\ call = EmptyBag
    /\ formData = [EmptyForm EXCEPT !.id = "x", !.name = "x", !.email = EmailOk,
                                     !.password = PasswordOk, !.branch = "x"]

\* C20: after a successful login the login screen routes to the dashboard of
\* the role selected in the form it was submitted with (StudentDashboard or
\* FacultyDashboard), whatever the client and the server's response hold; the
\* route changes in no other step, so not when a login fails.
C20_RoutesByFormRole ==
    /\ [](submit.pc \in {"storingToken", "storingRole"}
            => submit.isLogin /\ submit.token \in Tokens)
    /\ [][route' # route
            => /\ submit.pc = "storingRole"
               /\ route' = (IF submit.form.role = "student" THEN "StudentDashboard"
                            ELSE "FacultyDashboard")]_vars

\* C20 witness: a login submitted with role 'faculty' has succeeded and the
\* route is the faculty's dashboard.
C20_Witness ==
    /\ route = "FacultyDashboard" /\ userRole = "faculty"
    /\ store \in Tokens /\ submit.pc = "idle"

\* C21: every outgoing request, those of login and register included, passes
\* the credential read: it is sent with 'Bearer <token>' for the token stored
\* at the read, and without the header when nothing is stored; so a login
\* issued while an old token is stored carries that token.
C21_LoginAndRegisterIntercepted ==
    [][ReadingCount(call') < ReadingCount(call)
        => \A q \in BagToSet(call') :
              q.pc = "sent" /\ CopiesIn(q, call') > CopiesIn(q, call)
                  => q.hdr = (IF store # NoToken THEN Bearer(store) ELSE NoHdr)]_vars

\* C21 witness: a login is in flight with the token an earlier session left.
C21_Witness ==
    \E r \in InProgress :
        /\ r.op = "login" /\ r.pc = "sent"
        /\ store \in Tokens /\ r.hdr = Bearer(store)
        /\ authed = NoToken /\ ~loggedOut

\* The requests in flight that carry header h.
SentWith(bag, h) ==
    Copies(bag, {x \in BagToSet(bag) : x.pc = "sent" /\ x.hdr = h})

\* C22: a credential write is not atomic with the requests in flight: the
\* header of a request is made of the token its own credential read returned,
\* and a later write of the store (logout, a later login) leaves the requests
\* in flight with the header they have.
C22_HeaderFixedAtRead ==
    /\ [](\A r \in InProgress :
            r.pc = "sent"
                => r.hdr = (IF r.tok # NoToken THEN Bearer(r.tok) ELSE NoHdr))
    /\ [][store' # store
            => \A h \in {NoHdr} \cup {Bearer(t) : t \in Tokens} :
                  SentWith(call', h) = SentWith(call, h)]_vars

\* C22 witness: a logout has resolved and emptied the store while a request
\* whose read came before is in flight with the earlier token.
C22_Witness ==
    \E r \in InProgress :
        /\ r.pc = "sent" /\ r.op = "getTimetable"
        /\ r.tok = "T2" /\ r.hdr = Bearer("T2")
        /\ store = NoToken /\ loggedOut

\* C24: a failed login leaves the stored credential unchanged: the step in
\* which login rejects (transport failure, non-2xx response, envelope with a
\* status other than 'success', success envelope without token) does not
\* write key 'token', and login writes it in no earlier step.
C24_FailedLoginKeepsStore ==
    /\ [](\A r \in InProgress :
            r.op = "login" /\ r.pc = "writing" => LoginAccepts(r.resp.body))
    /\ [][\A q \in BagToSet(call') :
            /\ q.op = "login" /\ q.pc = "done" /\ q.result.kind = "throw"
            /\ CopiesIn(q, call') > CopiesIn(q, call)
            => store' = store]_vars

\* C24 witness: login has rejected a success envelope without token and the
\* token of an earlier session is still stored.
C24_Witness ==
    \E r \in InProgress :
        /\ r.op = "login" /\ r.pc = "done" /\ r.result.kind = "throw"
        /\ Is2xx(r.resp) /\ r.resp.body.status = "success"
        /\ r.resp.body.token = NoToken
        /\ store \in Tokens /\ authed = NoToken /\ ~loggedOut

\* C25 (as claimed): every submission that passes validation ends with one
\* outcome the user sees: the step in which isLoading is reset navigates to a
\* dashboard, raises the 'Success' Alert or raises the error Alert; so also
\* for a 2xx register response whose status is not 'success'.
C25_SubmissionEndsVisibly ==
    [][isLoading /\ ~isLoading'
        => \/ route' # route /\ alert' = alert
           \/ route' = route /\ alert' \in {"success", "connection"}]_vars

\* C26 (as claimed): once checkExistingSession has completed on a mount that
\* finds the token and the role a login of this app has stored, the screen has
\* left for the dashboard of the stored role.
C26_SessionRestored ==
    session.pc = "done" /\ store \in Tokens /\ userRole # "null"
        => route = (IF userRole = "student" THEN "StudentDashboard"
                    ELSE "FacultyDashboard")

\* handleSubmit is between its first await and its end.
Submitting == submit.pc \in {"awaiting", "storingToken", "storingRole"}

\* C27: on the login screen at most one submission is in flight: isLoading is
\* true exactly from the start of a validated handleSubmit to its end (also
\* when 'Retry' started it), the client has a call in progress only then, and
\* never two, and while isLoading is true the submit button cannot be pressed.
C27_OneSubmissionInFlight ==
    /\ BagCardinality(call) <= 1
    /\ isLoading <=> Submitting
    /\ call # EmptyBag => isLoading
    /\ isLoading => ~ENABLED PressSubmit

\* C27 witness: a login is in flight, the form on the screen is valid and no
\* Alert covers it, and isLoading keeps the button disabled.
C27_Witness ==
    /\ isLoading /\ alert = "none" /\ route = "LoginSignup"
    /\ validateForm(formData, isLogin)
    /\ \E r \in InProgress : r.op = "login" /\ r.pc = "sent"

\* A fetch of the hook completed in this step.
FetchCompletes == Cardinality(hook'.fetches) < Cardinality(hook.fetches)

\* Claim C28: in useApiCall, once every started fetch has completed, loading
\* and refreshing are both false; loading, once false, never becomes true
\* again; refreshing becomes true only in an onRefresh call (which starts a
\* fetch), is true only while a fetch is running, and is false after every
\* completion of a fetch.
C28_LoadingAndRefreshing ==
    /\ [](hook.issued > 0 /\ hook.fetches = {} => ~hook.loading /\ ~hook.refreshing)
    /\ [](hook.refreshing => hook.fetches # {})
    /\ [][~hook.loading => ~hook'.loading]_vars
    /\ [][~hook.refreshing /\ hook'.refreshing
            => hook.issued > 0 /\ hook'.issued = hook.issued + 1]_vars
    /\ [][FetchCompletes => ~hook'.loading /\ ~hook'.refreshing]_vars

\* Two refreshes ran after the mount, one of them failed, and all is quiet.
C28_Witness ==
    /\ hook.issued = 3
    /\ hook.fetches = {}
    /\ hook.error # "null"
    /\ ~hook.loading /\ ~hook.refreshing



\* Claim C29: when fetches of the hook overlap, the final data and error are
\* those of the fetch issued last: once all fetches have completed, if the
\* fetch issued last succeeded then error is null and data is its result,
\* whatever the order of the responses.
C29_LastIssuedWins ==
    hook.fetches = {} /\ hook.last = "ok"
        => hook.error = "null" /\ hook.data.fetch = hook.issued

C23_FailureShown ==
    hook.fetches = {} /\ hook.failed # "null"
        => ScreenView(hook) = "error" /\ hook.error = hook.failed

====
